---- MODULE Spec2Model ----
(***************************************************************************)
(* Join-request / team-membership subsystem of the competition platform.   *)
(* The store holds four tables that the modelled functions read or write:  *)
(* teams, participants, join_requests and join_messages.  Every exported   *)
(* function runs inside one store transaction, so each is one action.      *)
(* ret is the record of the last call and its outcome; checked remembers,  *)
(* for callers that validate in one transaction and move in a later one,   *)
(* the team each joiner was last cleared for.                              *)
(***************************************************************************)
EXTENDS Integers, Sequences, FiniteSets, TLC

VARIABLES teams, participants, join_requests, join_messages, ret, checked

vars == <<teams, participants, join_requests, join_messages, ret, checked>>
tables == <<teams, participants, join_requests, join_messages>>

\* ---------------------------------------------------------------- bounds
MaxJoinRequests == 2

Users == 1..5
NoUser == 0
\* the authentication contexts a call can come with: a resolvable user or none
Callers == {NoUser, 1}
\* the users whose moves between teams are explored, and the one among
\* them that join requests are recorded for
Joiners == {4, 5}
Requesters == {4}
\* team ids, with the competition field of each team document
TeamIds == {1, 2, 3, 4}
\* a team whose competition document has been deleted
OrphanTeam == 5
TeamCompetition == <<1, 1, 1, 2, 3>>
competitions == {1, 2}
Pitches == {"hi"}

\* a capacity check that lets a fifth member in
RosterCapOffByOne == 4 + 1

\* the team size at which validateTeamJoinRequest answers FULL
RosterCap == 4

NotInCompetition == "The user is not in the competition"
InternalError == "An internal server error occurred"
TeamNotFound == "The team does not exist"

\* ---------------------------------------------------------------- helpers
\* the outcome of a call: a returned value, or a thrown error
Returned(v) == [ok |-> TRUE, value |-> v]
Thrown(msg) == [ok |-> FALSE, error |-> msg]
\* the `false` that findTeamOfUser returns for a user without a team
NoTeam == [_id |-> 0]

\* index of the first element satisfying Test, 0 when there is none
FirstIndex(s, Test(_)) ==
  LET hits == {i \in 1..Len(s) : Test(s[i])}
  IN IF hits = {} THEN 0 ELSE CHOOSE i \in hits : \A k \in hits : i <= k

RemoveAt(s, i) == SubSeq(s, 1, i - 1) \o SubSeq(s, i + 1, Len(s))

\* db.query('participants').withIndex('by_team', ...).collect()
participantsByTeam(t) == SelectSeq(participants, LAMBDA p : p.team = t)
\* a by_user lookup that compares the row id with the user id
participantsByUserWrongField(u) == SelectSeq(participants, LAMBDA p : p._id = u)
\* db.query('participants').withIndex('by_user', ...).collect()
participantsByUser(u) == SelectSeq(participants, LAMBDA p : p.user = u)
\* db.query('join_requests').withIndex('by_team', ...).collect()
joinRequestsByTeam(t) == SelectSeq(join_requests, LAMBDA r : r.team = t)

\* resolves user ids to user documents; a user document is named by its id
convertToUserDocumentArray(ids) == ids

\* ------------------------------------------------------------ read side
RECURSIVE fulfillAndFlatten(_)
fulfillAndFlatten(lists) ==
  IF lists = <<>> THEN <<>> ELSE Head(lists) \o fulfillAndFlatten(Tail(lists))

\* a listing that does not skip participations whose team is gone
ownParticipationEntryUnchecked(item) ==
  << [participation |-> item, team |-> item.team,
      competition |-> TeamCompetition[item.team]] >>

\* a listing that skips a missing team, not a missing competition
ownParticipationEntryAnyCompetition(item) ==
  IF item.team \notin teams THEN <<>>
  ELSE << [participation |-> item, team |-> item.team,
           competition |-> TeamCompetition[item.team]] >>

ownParticipationEntry(item) ==
  IF item.team \notin teams THEN <<>>
  ELSE IF TeamCompetition[item.team] \notin competitions THEN <<>>
  ELSE << [participation |-> item, team |-> item.team,
           competition |-> TeamCompetition[item.team]] >>

listOwnParticipations(user) ==
  LET rows == participantsByUser(user)
  IN fulfillAndFlatten([i \in 1..Len(rows) |-> ownParticipationEntry(rows[i])])

verifyTeam(teamId) ==
  IF teamId \notin teams THEN Thrown(TeamNotFound)
  ELSE LET memberRows == participantsByTeam(teamId)
       IN Returned([_id |-> teamId,
                    competition |-> TeamCompetition[teamId],
                    members |-> convertToUserDocumentArray(
                                  [i \in 1..Len(memberRows) |-> memberRows[i].user]),
                    joinRequests |-> joinRequestsByTeam(teamId)])

\* a lookup that takes the user's first participation, whatever its competition
currentParticipationAnyCompetition(user, competition) ==
  IF listOwnParticipations(user) = <<>> THEN 0 ELSE 1

currentParticipation(user, competition) ==
  LET own == listOwnParticipations(user)
  IN FirstIndex(own, LAMBDA item : item.competition = competition)

\* Returned(NoTeam) when the user has no team in the competition
findTeamOfUser(user, competition) ==
  LET own == listOwnParticipations(user)
      k == currentParticipation(user, competition)
  IN IF k = 0 THEN Returned(NoTeam)
     ELSE LET teamAndMembers == verifyTeam(own[k].team)
          IN IF ~teamAndMembers.ok THEN teamAndMembers
             ELSE Returned([_id |-> teamAndMembers.value._id,
                            competition |-> teamAndMembers.value.competition,
                            members |-> teamAndMembers.value.members,
                            joinRequests |-> teamAndMembers.value.joinRequests,
                            userMembership |-> own[k].participation])

\* a classification that never looks for an existing join request
classifyIgnoringExisting(inviterTeam, joiner) == "VALID"

\* a classification that takes one consent for both
classifyEitherConsent(inviterTeam, joiner) ==
  LET reqs == joinRequestsByTeam(inviterTeam)
      k == FirstIndex(reqs, LAMBDA item : item.user = joiner)
  IN IF k = 0 THEN "VALID"
     ELSE IF reqs[k].teamConsent \/ reqs[k].userConsent THEN "ACCEPTED"
     ELSE "VALID"

\* a classification that mixes up the two one-sided states
classifySwapped(inviterTeam, joiner) ==
  LET reqs == joinRequestsByTeam(inviterTeam)
      k == FirstIndex(reqs, LAMBDA item : item.user = joiner)
  IN IF k = 0 THEN "VALID"
     ELSE IF reqs[k].teamConsent /\ reqs[k].userConsent THEN "ACCEPTED"
     ELSE IF reqs[k].teamConsent /\ ~reqs[k].userConsent THEN "REQUESTED"
     ELSE IF ~reqs[k].teamConsent /\ reqs[k].userConsent THEN "INVITED"
     ELSE "VALID"

classifyJoinRequest(inviterTeam, joiner) ==
  LET reqs == joinRequestsByTeam(inviterTeam)
      k == FirstIndex(reqs, LAMBDA item : item.user = joiner)
  IN IF k = 0 THEN "VALID"
     ELSE IF reqs[k].teamConsent /\ reqs[k].userConsent THEN "ACCEPTED"
     ELSE IF reqs[k].teamConsent /\ ~reqs[k].userConsent THEN "INVITED"
     ELSE IF ~reqs[k].teamConsent /\ reqs[k].userConsent THEN "REQUESTED"
     ELSE "VALID"

\* a validator that checks the capacity before the membership
validateCapacityFirst(inviterTeam, joiner) ==
  LET inviterTeamParticipants == participantsByTeam(inviterTeam)
      requestorMembership ==
        FirstIndex(inviterTeamParticipants, LAMBDA item : item.user = joiner)
  IN IF Len(inviterTeamParticipants) >= RosterCap THEN Returned("FULL")
     ELSE IF requestorMembership > 0 THEN Returned("BACKWARDS")
     ELSE LET joinerTeam == findTeamOfUser(joiner, TeamCompetition[inviterTeam])
          IN IF ~joinerTeam.ok THEN joinerTeam
             ELSE IF joinerTeam.value._id = 0 THEN Thrown(NotInCompetition)
             ELSE IF Len(joinerTeam.value.members) > 1 THEN Returned("COMMITTED")
             ELSE Returned(classifyJoinRequest(inviterTeam, joiner))

\* a validator that lets a joiner leave a team with one other member
validateLenientCommitted(inviterTeam, joiner) ==
  LET inviterTeamParticipants == participantsByTeam(inviterTeam)
      requestorMembership ==
        FirstIndex(inviterTeamParticipants, LAMBDA item : item.user = joiner)
  IN IF requestorMembership > 0 THEN Returned("BACKWARDS")
     ELSE IF Len(inviterTeamParticipants) >= RosterCap THEN Returned("FULL")
     ELSE LET joinerTeam == findTeamOfUser(joiner, TeamCompetition[inviterTeam])
          IN IF ~joinerTeam.ok THEN joinerTeam
             ELSE IF joinerTeam.value._id = 0 THEN Thrown(NotInCompetition)
             ELSE IF Len(joinerTeam.value.members) > 2 THEN Returned("COMMITTED")
             ELSE Returned(classifyJoinRequest(inviterTeam, joiner))

validateTeamJoinRequest(inviterTeam, joiner) ==
  LET inviterTeamParticipants == participantsByTeam(inviterTeam)
      requestorMembership ==
        FirstIndex(inviterTeamParticipants, LAMBDA item : item.user = joiner)
  IN IF requestorMembership > 0 THEN Returned("BACKWARDS")
     ELSE IF Len(inviterTeamParticipants) >= RosterCap THEN Returned("FULL")
     ELSE LET joinerTeam == findTeamOfUser(joiner, TeamCompetition[inviterTeam])
          IN IF ~joinerTeam.ok THEN joinerTeam
             ELSE IF joinerTeam.value._id = 0 THEN Thrown(NotInCompetition)
             ELSE IF Len(joinerTeam.value.members) > 1 THEN Returned("COMMITTED")
             ELSE Returned(classifyJoinRequest(inviterTeam, joiner))

\* whether the viewer may read and write the cross chat of a join request
validateCrossChatParticipation(joinRequestInfo, viewer) ==
  LET invitingTeam == verifyTeam(joinRequestInfo.team)
  IN IF ~invitingTeam.ok THEN invitingTeam
     ELSE Returned(
            \/ \E i \in 1..Len(invitingTeam.value.members) :
                 invitingTeam.value.members[i] = viewer
            \/ joinRequestInfo.user = viewer)

\* resolves the authentication context to a user document, or fails
verifyUser(auth) ==
  IF auth \in Users THEN Returned(auth) ELSE Thrown("Unauthenticated")

\* ----------------------------------------------------------- write side
\* a store that numbers a new join request after the rows it still holds
newJoinRequestIdReused == Len(join_requests) + 1

\* ids the store has handed out for join requests; every insert of a join
\* request also inserts a message naming it, and messages are never deleted
newJoinRequestId == Len(join_messages) + 1

\* a recorder that copies the initiating side's flag to the other side
recordJoinRequestSameConsent(auth, inviterTeamId, joinerId, pitch, teamConsent) ==
  /\ Len(join_messages) < MaxJoinRequests
  /\ LET user == verifyUser(auth)
     IN IF ~user.ok
        THEN /\ UNCHANGED tables
             /\ ret' = [op |-> "recordJoinRequest", auth |-> auth,
                        team |-> inviterTeamId, user |-> joinerId,
                        pitch |-> pitch, teamConsent |-> teamConsent,
                        result |-> user]
        ELSE /\ join_requests' = Append(join_requests,
                    [_id |-> newJoinRequestId, team |-> inviterTeamId,
                     user |-> joinerId, userConsent |-> teamConsent,
                     teamConsent |-> teamConsent])
             /\ join_messages' = Append(join_messages,
                    [join_request |-> newJoinRequestId, sender |-> user.value,
                     message |-> pitch])
             /\ UNCHANGED <<teams, participants>>
             /\ ret' = [op |-> "recordJoinRequest", auth |-> auth,
                        team |-> inviterTeamId, user |-> joinerId,
                        pitch |-> pitch, teamConsent |-> teamConsent,
                        result |-> Returned(newJoinRequestId)]

recordJoinRequest(auth, inviterTeamId, joinerId, pitch, teamConsent) ==
  /\ Len(join_messages) < MaxJoinRequests
  /\ LET user == verifyUser(auth)
     IN IF ~user.ok
        THEN /\ UNCHANGED tables
             /\ ret' = [op |-> "recordJoinRequest", auth |-> auth,
                        team |-> inviterTeamId, user |-> joinerId,
                        pitch |-> pitch, teamConsent |-> teamConsent,
                        result |-> user]
        ELSE /\ join_requests' = Append(join_requests,
                    [_id |-> newJoinRequestId, team |-> inviterTeamId,
                     user |-> joinerId, userConsent |-> ~teamConsent,
                     teamConsent |-> teamConsent])
             /\ join_messages' = Append(join_messages,
                    [join_request |-> newJoinRequestId, sender |-> user.value,
                     message |-> pitch])
             /\ UNCHANGED <<teams, participants>>
             /\ ret' = [op |-> "recordJoinRequest", auth |-> auth,
                        team |-> inviterTeamId, user |-> joinerId,
                        pitch |-> pitch, teamConsent |-> teamConsent,
                        result |-> Returned(newJoinRequestId)]

\* the consenting side sets its flag on the existing join request
consentToJoinRequest(requestId, byTeam) ==
  /\ \E i \in 1..Len(join_requests) :
       /\ join_requests[i]._id = requestId
       /\ join_requests' = [join_requests EXCEPT ![i] =
             IF byTeam THEN [@ EXCEPT !.teamConsent = TRUE]
                       ELSE [@ EXCEPT !.userConsent = TRUE]]
       /\ join_requests'[i] # join_requests[i]
  /\ UNCHANGED <<teams, participants, join_messages>>
  /\ ret' = [op |-> "consentToJoinRequest", request |-> requestId]

\* a cleanup that counts the members after the joiner has left
abandonsTeamWhenEmpty(teamOfJoiner) == Len(teamOfJoiner.members) = 0

\* the team row is deleted when the joiner was its only member
abandonsTeam(teamOfJoiner) == Len(teamOfJoiner.members) = 1

\* a lookup that forgets to restrict the join requests to the inviting team
userToTeamJoinRequestAnyTeam(user, invitingTeam) ==
  FirstIndex(join_requests, LAMBDA r : r.user = user)

\* a lookup that never finds the join request of the pair
userToTeamJoinRequestNone(user, invitingTeam) == 0

\* position of the first join request of the team that names the user
userToTeamJoinRequest(user, invitingTeam) ==
  FirstIndex(join_requests, LAMBDA r : r.team = invitingTeam /\ r.user = user)

\* a store that keeps the writes a mutation made before it threw
abortedWritesKept(before, written) == written

\* db is the writer of one mutation: when the function throws, the mutation
\* fails and none of the writes it made through db is applied
abortedWrites(before, written) == before

addUserToTeam(user, invitingTeam) ==
  LET k == userToTeamJoinRequest(user, invitingTeam)
      afterDelete == IF k > 0 THEN RemoveAt(join_requests, k) ELSE join_requests
      teamOfJoiner == findTeamOfUser(user, TeamCompetition[invitingTeam])
      call == [op |-> "addUserToTeam", user |-> user, team |-> invitingTeam]
  IN IF ~teamOfJoiner.ok \/ teamOfJoiner.value._id = 0
     THEN /\ join_requests' = abortedWrites(join_requests, afterDelete)
          /\ UNCHANGED <<teams, participants, join_messages>>
          /\ ret' = call @@
                    [result |-> IF teamOfJoiner.ok THEN Thrown(NotInCompetition)
                                ELSE teamOfJoiner]
     ELSE LET prior == teamOfJoiner.value
              p == FirstIndex(participants,
                     LAMBDA item : item.team = prior._id /\ item.user = user)
          IN IF p = 0
             THEN /\ join_requests' = abortedWrites(join_requests, afterDelete)
                  /\ UNCHANGED <<teams, participants, join_messages>>
                  /\ ret' = call @@ [result |-> Thrown(InternalError)]
             ELSE /\ join_requests' = afterDelete
                  /\ participants' =
                       [participants EXCEPT ![p].team = invitingTeam]
                  /\ teams' = IF abandonsTeam(prior)
                              THEN teams \ {prior._id} ELSE teams
                  /\ UNCHANGED join_messages
                  /\ ret' = call @@
                       [result |-> Returned("done"), priorTeam |-> prior._id,
                        priorSize |-> Len(prior.members),
                        priorRequests |-> Cardinality(
                          {i \in 1..Len(join_requests) :
                             /\ join_requests[i].team = invitingTeam
                             /\ join_requests[i].user = user})]

\* a read that removes the participations whose team is gone
readRepairsParticipants ==
  /\ participants' = SelectSeq(participants, LAMBDA p : p.team \in teams)
  /\ UNCHANGED <<teams, join_requests, join_messages>>

\* the read functions take a database reader: they write to no table
readOnly == UNCHANGED tables

\* the read-only validator, called on an existing team
validate(inviterTeam, joiner) ==
  /\ readOnly
  /\ ret' = [op |-> "validateTeamJoinRequest", team |-> inviterTeam,
             user |-> joiner, result |-> validateTeamJoinRequest(inviterTeam, joiner)]

callVerifyTeam(teamId) ==
  /\ readOnly
  /\ ret' = [op |-> "verifyTeam", team |-> teamId, result |-> verifyTeam(teamId)]

callFindTeamOfUser(user, competition) ==
  /\ readOnly
  /\ ret' = [op |-> "findTeamOfUser", user |-> user, competition |-> competition,
             result |-> findTeamOfUser(user, competition)]

callListOwnParticipations(user) ==
  /\ readOnly
  /\ ret' = [op |-> "listOwnParticipations", user |-> user,
             result |-> Returned(listOwnParticipations(user))]

callValidateCrossChatParticipation(joinRequestInfo, viewer) ==
  /\ readOnly
  /\ ret' = [op |-> "validateCrossChatParticipation",
             request |-> joinRequestInfo, viewer |-> viewer,
             result |-> validateCrossChatParticipation(joinRequestInfo, viewer)]

\* ------------------------------------------------------------ initial state
\* Teams 1, 2, 3 are entered in competition 1 and team 4 in competition 2.
\* Users 1..3 form team 1, users 4 and 5 each own a solo team, and team 4
\* has users 1 and 5.
rowsAtStart ==
  << [_id |-> 1, user |-> 1, team |-> 1], [_id |-> 2, user |-> 1, team |-> 4],
     [_id |-> 3, user |-> 2, team |-> 1], [_id |-> 4, user |-> 3, team |-> 1],
     [_id |-> 5, user |-> 4, team |-> 2], [_id |-> 6, user |-> 5, team |-> 3],
     [_id |-> 7, user |-> 5, team |-> 4] >>

Init ==
  /\ participants = rowsAtStart
  /\ teams = TeamIds
  /\ join_requests = <<>>
  /\ join_messages = <<>>
  /\ ret = [op |-> "none"]
  /\ checked = [u \in Joiners |-> 0]

doRecordJoinRequest ==
  /\ UNCHANGED checked
  /\ \E auth \in Callers, t \in teams, j \in Requesters, pitch \in Pitches,
     teamConsent \in BOOLEAN :
       recordJoinRequest(auth, t, j, pitch, teamConsent)

doConsent ==
  /\ UNCHANGED checked
  /\ \E r \in 1..MaxJoinRequests, byTeam \in BOOLEAN : consentToJoinRequest(r, byTeam)

doAddUserToTeam ==
  /\ UNCHANGED checked
  /\ \E u \in Joiners, t \in teams : addUserToTeam(u, t)

doValidate ==
  /\ UNCHANGED checked
  /\ \E t \in teams, j \in Joiners : validate(t, j)

Next == doRecordJoinRequest \/ doConsent \/ doAddUserToTeam \/ doValidate

Spec == Init /\ [][Next]_vars

\* callers that record a join request only after the validator answered VALID
\* in the same transaction
doRecordValidJoinRequest ==
  /\ UNCHANGED checked
  /\ \E auth \in Callers, t \in teams, j \in Requesters, pitch \in Pitches,
        teamConsent \in BOOLEAN :
       /\ validateTeamJoinRequest(t, j) = Returned("VALID")
       /\ recordJoinRequest(auth, t, j, pitch, teamConsent)

NextValidated ==
  doRecordValidJoinRequest \/ doConsent \/ doAddUserToTeam \/ doValidate

SpecValidated == Init /\ [][NextValidated]_vars

\* the write functions together with every read function, from a state that
\* also holds a team whose competition is gone, with user 4 on it
InitReads ==
  /\ participants = Append(rowsAtStart, [_id |-> 8, user |-> 4, team |-> OrphanTeam])
  /\ teams = TeamIds \cup {OrphanTeam}
  /\ join_requests = <<>>
  /\ join_messages = <<>>
  /\ ret = [op |-> "none"]
  /\ checked = [u \in Joiners |-> 0]

doVerifyTeam ==
  /\ UNCHANGED checked
  /\ \E t \in TeamIds \cup {OrphanTeam} : callVerifyTeam(t)

doFindTeamOfUser ==
  /\ UNCHANGED checked
  /\ \E u \in Joiners, c \in competitions : callFindTeamOfUser(u, c)

doListOwnParticipations ==
  /\ UNCHANGED checked
  /\ \E u \in Joiners : callListOwnParticipations(u)

doValidateCrossChatParticipation ==
  /\ UNCHANGED checked
  /\ \E i \in 1..Len(join_requests), viewer \in Users :
       callValidateCrossChatParticipation(join_requests[i], viewer)

NextReads ==
  \/ doRecordJoinRequest
  \/ doAddUserToTeam
  \/ doValidate
  \/ doVerifyTeam
  \/ doFindTeamOfUser
  \/ doListOwnParticipations
  \/ doValidateCrossChatParticipation

SpecReads == InitReads /\ [][NextReads]_vars

\* callers that validate in one transaction and, unless the answer was FULL,
\* move the user in a later one; other callers run in between
doCheckCapacity ==
  \E u \in Joiners, t \in teams :
    /\ validate(t, u)
    /\ checked' = [checked EXCEPT ![u] =
         IF validateTeamJoinRequest(t, u) # Returned("FULL")
            /\ validateTeamJoinRequest(t, u).ok
         THEN t ELSE 0]

doJoinAfterCheck ==
  \E u \in Joiners :
    /\ checked[u] \in teams
    /\ addUserToTeam(u, checked[u])
    /\ checked' = [checked EXCEPT ![u] = 0]

NextRace == doCheckCapacity \/ doJoinAfterCheck

SpecRace == Init /\ [][NextRace]_vars

\* the scenario's starting point: user 4 is the only member of team 1 and
\* team 2 has users 1 and 2, both teams in competition 1; user 5 owns team 3
\* and shares team 4 (competition 2) with user 1
rowsOfScenario ==
  << [_id |-> 1, user |-> 4, team |-> 1], [_id |-> 2, user |-> 1, team |-> 2],
     [_id |-> 3, user |-> 2, team |-> 2], [_id |-> 4, user |-> 5, team |-> 3],
     [_id |-> 5, user |-> 1, team |-> 4], [_id |-> 6, user |-> 5, team |-> 4] >>

InitScenario ==
  /\ participants = rowsOfScenario
  /\ teams = TeamIds
  /\ join_requests = <<>>
  /\ join_messages = <<>>
  /\ ret = [op |-> "none"]
  /\ checked = [u \in Joiners |-> 0]

SpecScenario == InitScenario /\ [][Next]_vars

\* ------------------------------------------------------------ properties
roster(t) == {participants[i].user : i \in {k \in 1..Len(participants) : participants[k].team = t}}
rowsOfUserIn(u, c) ==
  {i \in 1..Len(participants) :
     participants[i].user = u /\ TeamCompetition[participants[i].team] = c}
listedIn(u, c) ==
  {i \in 1..Len(listOwnParticipations(u)) : listOwnParticipations(u)[i].competition = c}
requestsBetween(t, u) ==
  {i \in 1..Len(join_requests) : join_requests[i].team = t /\ join_requests[i].user = u}
validated == ret.op = "validateTeamJoinRequest"
moved == ret.op = "addUserToTeam" /\ ret.result.ok

\* C1 (I1): a user never has more than one Participant row per competition,
\* and listOwnParticipations(u) never lists a competition twice.
C1_OneTeamPerCompetition ==
  \A u \in Users, c \in competitions :
    /\ Cardinality(rowsOfUserIn(u, c)) <= 1
    /\ Cardinality(listedIn(u, c)) <= 1

\* a user holding teams in two competitions has been moved, with a join
\* request on record
C1_Witness ==
  /\ moved
  /\ join_requests # <<>>
  /\ \A c \in competitions : Cardinality(listedIn(ret.user, c)) = 1

\* C2 (I2): every existing team has at least one member; a team whose last
\* member is moved away is gone in the state the move produces.
C2_NoEmptyTeam ==
  /\ \A t \in teams : roster(t) # {}
  /\ (moved /\ ret.priorSize = 1 /\ ret.priorTeam # ret.team)
       => ret.priorTeam \notin teams

\* the only member of a team has been moved to another team
C2_Witness ==
  /\ moved
  /\ ret.priorSize = 1
  /\ ret.priorTeam # ret.team
  /\ ret.priorTeam \notin teams

\* C3 (I3): when join requests are recorded only after the validator answered
\* VALID in the same step, no (team, user) pair has two JoinRequest rows.
C3_OneRequestPerPair ==
  \A t \in TeamIds, u \in Users : Cardinality(requestsBetween(t, u)) <= 1

\* a second join request has been recorded, for another team
C3_Witness ==
  /\ ret.op = "recordJoinRequest"
  /\ ret.result.ok
  /\ Len(join_requests) = 2

\* C4 (I4, only-if): the validator answers ACCEPTED only when a JoinRequest
\* row of the pair has both consent flags set.
C4_AcceptedOnlyWithBothConsents ==
  \A t \in teams, u \in Users :
    validateTeamJoinRequest(t, u) = Returned("ACCEPTED")
      => \E i \in requestsBetween(t, u) :
           join_requests[i].teamConsent /\ join_requests[i].userConsent

\* the validator has answered ACCEPTED
C4_Witness ==
  /\ validated
  /\ ret.result = Returned("ACCEPTED")
  /\ validateTeamJoinRequest(ret.team, ret.user) = Returned("ACCEPTED")

\* C5: for a joiner who is a member of the team the validator answers
\* BACKWARDS, whatever the roster size, other participations or join requests.
C5_MemberIsBackwards ==
  \A t \in teams, u \in Users :
    u \in roster(t) => validateTeamJoinRequest(t, u) = Returned("BACKWARDS")

\* the validator has answered BACKWARDS for a member of a full team that
\* has a join request naming that member
C5_Witness ==
  /\ validated
  /\ ret.result = Returned("BACKWARDS")
  /\ ret.user \in roster(ret.team)
  /\ Cardinality(roster(ret.team)) >= RosterCap
  /\ requestsBetween(ret.team, ret.user) # {}

\* C6 as stated: for a team of exactly 4 members the validator answers FULL
\* for every joiner.
C6_FullForEveryJoiner ==
  \A t \in teams, u \in Users :
    Len(participantsByTeam(t)) = 4
      => validateTeamJoinRequest(t, u) = Returned("FULL")

\* C6 amended: for a team of exactly 4 members the validator answers FULL
\* for every joiner who is not one of those members, whatever join request
\* exists between them.
C6_FullForOutsiders ==
  \A t \in teams, u \in Users :
    (Len(participantsByTeam(t)) = 4 /\ u \notin roster(t))
      => validateTeamJoinRequest(t, u) = Returned("FULL")

\* the validator has answered FULL although a join request exists
C6_Witness ==
  /\ validated
  /\ ret.result = Returned("FULL")
  /\ Len(participantsByTeam(ret.team)) = 4
  /\ requestsBetween(ret.team, ret.user) # {}

consentAnswer(r) ==
  IF r.teamConsent /\ r.userConsent THEN "ACCEPTED"
  ELSE IF r.teamConsent THEN "INVITED" ELSE "REQUESTED"

\* C7 as stated: whenever a JoinRequest exists between team and joiner, the
\* validator answers ACCEPTED, INVITED or REQUESTED according to its flags.
C7_AnswerFollowsFlags ==
  \A t \in teams, u \in Users :
    \A i \in requestsBetween(t, u) :
      (join_requests[i].teamConsent \/ join_requests[i].userConsent)
        => validateTeamJoinRequest(t, u) = Returned(consentAnswer(join_requests[i]))

\* the joiner can still move: not a member, team below the cap, and the
\* joiner's own team in the competition has no other member
canStillJoin(t, u) ==
  /\ u \notin roster(t)
  /\ Len(participantsByTeam(t)) < RosterCap
  /\ \E own \in teams :
       TeamCompetition[own] = TeamCompetition[t] /\ roster(own) = {u}

\* C7 amended: when the joiner is not a member of the team, the team has
\* fewer than 4 members and the joiner's own team has no other member, the
\* validator answers according to the flags of the earliest JoinRequest
\* between them: ACCEPTED, INVITED (team only) or REQUESTED (user only).
C7_AnswerFollowsEarliestRequest ==
  \A t \in teams, u \in Users :
    (canStillJoin(t, u) /\ requestsBetween(t, u) # {})
      => LET first == CHOOSE i \in requestsBetween(t, u) :
                        \A k \in requestsBetween(t, u) : i <= k
         IN validateTeamJoinRequest(t, u) =
              Returned(consentAnswer(join_requests[first]))

\* the validator has answered REQUESTED on a user-only join request
C7_Witness ==
  /\ validated
  /\ ret.result = Returned("REQUESTED")
  /\ canStillJoin(ret.team, ret.user)
  /\ \E i \in requestsBetween(ret.team, ret.user) :
       ~join_requests[i].teamConsent /\ join_requests[i].userConsent

\* the joiner has no participation that resolves to an existing team of the
\* competition of t
outsideCompetition(t, u) ==
  /\ u \notin roster(t)
  /\ Len(participantsByTeam(t)) < RosterCap
  /\ ~\E i \in 1..Len(participants) :
        /\ participants[i].user = u
        /\ participants[i].team \in teams
        /\ TeamCompetition[participants[i].team] = TeamCompetition[t]

\* C8: for a joiner outside the team's competition (and not caught by the
\* member or capacity checks) the validator throws 'The user is not in the
\* competition' instead of returning a validity, and a validator call leaves
\* every table as it was.
C8_ThrowsOutsideCompetition ==
  [][ /\ \A t \in teams, u \in Users :
          outsideCompetition(t, u)
            => validateTeamJoinRequest(t, u) = Thrown(NotInCompetition)
      /\ (ret'.op = "validateTeamJoinRequest" /\ ret' # ret)
            => /\ tables' = tables
               /\ ret'.result = validateTeamJoinRequest(ret'.team, ret'.user)
               /\ outsideCompetition(ret'.team, ret'.user)
                    => ret'.result = Thrown(NotInCompetition) ]_vars

\* the validator has thrown for a joiner outside the competition
C8_Witness ==
  /\ validated
  /\ outsideCompetition(ret.team, ret.user)
  /\ ret.result = Thrown(NotInCompetition)

\* C9: after addUserToTeam(user, teamB) where the user was the only member
\* of the prior team teamA, teamA is gone and findTeamOfUser(user, competition)
\* returns teamB, whose members include the user.
C9_SoloMoveLandsOnTeamB ==
  (moved /\ ret.priorSize = 1)
    => /\ ret.priorTeam \notin teams
       /\ LET found == findTeamOfUser(ret.user, TeamCompetition[ret.team])
          IN /\ found.ok
             /\ found.value._id = ret.team
             /\ ret.team \in teams
             /\ ret.user \in roster(ret.team)

C12_RosterCapHolds ==
  \A t \in teams : Len(participantsByTeam(t)) <= RosterCap

\* C13: for every existing JoinRequest jr and every user v,
\* validateCrossChatParticipation(jr, v) returns true when v is the joining
\* user of jr or a current member of its team, and false for everyone else,
\* former members of the team included.
C13_CrossChatAccess ==
  \A i \in 1..Len(join_requests), v \in Users :
    validateCrossChatParticipation(join_requests[i], v) =
      Returned(v = join_requests[i].user \/ v \in roster(join_requests[i].team))

\* the scenario's shape: A is the only member of t1, t2 has two members, and
\* both teams are in the same competition
soloFacingPair(A, t1, t2) ==
  /\ t1 # t2
  /\ TeamCompetition[t1] = TeamCompetition[t2]
  /\ roster(t1) = {A}
  /\ Cardinality(roster(t2)) = 2

tableAnswer(r) ==
  IF r.teamConsent /\ r.userConsent THEN "ACCEPTED"
  ELSE IF r.teamConsent THEN "INVITED"
  ELSE IF r.userConsent THEN "REQUESTED"
  ELSE "VALID"

\* the existing teams of the competition of t that have u on their roster
ownTeams(t, u) ==
  {o \in teams : TeamCompetition[o] = TeamCompetition[t] /\ u \in roster(o)}

\* C15: on every state the validator equals the first-match-wins table:
\* BACKWARDS for a member of the inviting team; else FULL when the team has
\* 4 or more members; else an error when the joiner has no team in the
\* competition; else COMMITTED when the joiner's own team has more than one
\* member; else VALID without a JoinRequest of the pair, and otherwise the
\* answer by the flags of an existing JoinRequest of the pair (ACCEPTED,
\* INVITED, REQUESTED, or VALID with both flags false).
C15_MatchesReferenceTable ==
  \A t \in teams, u \in Users :
    LET r == validateTeamJoinRequest(t, u)
    IN IF u \in roster(t) THEN r = Returned("BACKWARDS")
       ELSE IF Cardinality(roster(t)) >= 4 THEN r = Returned("FULL")
       ELSE IF ownTeams(t, u) = {} THEN ~r.ok
       ELSE IF \E o \in ownTeams(t, u) : Cardinality(roster(o)) > 1
            THEN r = Returned("COMMITTED")
       ELSE IF requestsBetween(t, u) = {} THEN r = Returned("VALID")
       ELSE \E i \in requestsBetween(t, u) :
              r = Returned(tableAnswer(join_requests[i]))

\* the validator has answered COMMITTED for a joiner whose team has one
\* other member, although a JoinRequest of the pair exists
C15_Witness ==
  /\ validated
  /\ ret.result = Returned("COMMITTED")
  /\ requestsBetween(ret.team, ret.user) # {}
  /\ \E o \in ownTeams(ret.team, ret.user) : Cardinality(roster(o)) = 2

\* C16: a recordJoinRequest call by a resolvable caller appends exactly one
\* JoinRequest row (team, user = joiner, the given teamConsent, userConsent =
\* NOT teamConsent) under an id no existing row has, appends exactly one
\* JoinMessage naming that id with the pitch and sender = the caller, returns
\* that id and leaves teams and participants alone; with an unresolvable
\* caller it fails and no table changes.
C16_RecordsOneRequestAndMessage ==
  [][ ret'.op = "recordJoinRequest" =>
        IF ret'.auth \in Users
        THEN /\ ret'.result.ok
             /\ join_requests' = Append(join_requests,
                   [_id |-> ret'.result.value, team |-> ret'.team,
                    user |-> ret'.user, teamConsent |-> ret'.teamConsent,
                    userConsent |-> ~ret'.teamConsent])
             /\ \A i \in 1..Len(join_requests) :
                  join_requests[i]._id # ret'.result.value
             /\ join_messages' = Append(join_messages,
                   [join_request |-> ret'.result.value, sender |-> ret'.auth,
                    message |-> ret'.pitch])
             /\ \A m \in 1..Len(join_messages) :
                  join_messages[m].join_request # ret'.result.value
             /\ teams' = teams
             /\ participants' = participants
        ELSE /\ ~ret'.result.ok
             /\ tables' = tables ]_vars

\* a join request has been recorded after an earlier one was deleted by a
\* move: the new row is the only one, and it carries the second id
C16_Witness ==
  /\ ret.op = "recordJoinRequest"
  /\ ret.result = Returned(2)
  /\ Len(join_requests) = 1
  /\ join_requests[1]._id = 2
  /\ join_requests[1].userConsent = ~ret.teamConsent
  /\ Len(join_messages) = 2
  /\ join_messages[2].sender = ret.auth

\* the user's Participant rows whose team and whose team's competition exist
liveRowsOf(u) ==
  SelectSeq(participants,
    LAMBDA p : /\ p.user = u
               /\ p.team \in teams
               /\ TeamCompetition[p.team] \in competitions)

\* C17: listOwnParticipations(user) is exactly the user's Participant rows
\* whose team and competition exist, each with its team and competition; the
\* other rows are left out without an error, and findTeamOfUser answers
\* absent, never an error, for a user with no such row in the competition.
C17_ListsLiveParticipations ==
  \A u \in Users :
    /\ listOwnParticipations(u) =
         [i \in 1..Len(liveRowsOf(u)) |->
            [participation |-> liveRowsOf(u)[i], team |-> liveRowsOf(u)[i].team,
             competition |-> TeamCompetition[liveRowsOf(u)[i].team]]]
    /\ \A c \in competitions :
         /\ findTeamOfUser(u, c).ok
         /\ (\A i \in 1..Len(liveRowsOf(u)) :
               TeamCompetition[liveRowsOf(u)[i].team] # c)
              => findTeamOfUser(u, c) = Returned(NoTeam)

\* findTeamOfUser has answered absent for a user whose participation in the
\* competition points to a deleted team
C17_Witness ==
  /\ ret.op = "findTeamOfUser"
  /\ ret.result = Returned(NoTeam)
  /\ \E i \in 1..Len(participants) :
       /\ participants[i].user = ret.user
       /\ participants[i].team \notin teams
       /\ TeamCompetition[participants[i].team] = ret.competition
  /\ Len(listOwnParticipations(ret.user)) < Len(participantsByUser(ret.user))

ReadOperations ==
  {"validateTeamJoinRequest", "verifyTeam", "findTeamOfUser",
   "listOwnParticipations", "validateCrossChatParticipation"}

C19_InternalErrorUnreachable ==
  /\ \A u \in Users, c \in competitions :
       LET found == findTeamOfUser(u, c)
       IN (found.ok /\ found.value._id # 0)
            => \E i \in 1..Len(participants) :
                 /\ participants[i].team = found.value._id
                 /\ participants[i].user = u
  /\ ret.op = "addUserToTeam" => ret.result # Thrown(InternalError)

\* the participation lookup has succeeded in a move off a team that the
\* user shared with one other member
C19_Witness ==
  /\ moved
  /\ ret.priorSize = 2
  /\ ret.priorTeam \in teams
  /\ ret.user \notin roster(ret.priorTeam)
  /\ ret.user \in roster(ret.team)

\* C20: after any sequence of addUserToTeam calls, a call on the team the
\* user is already the only member of included, every Participant row
\* references a team that exists.
C20_ParticipantsReferenceTeams ==
  \A i \in 1..Len(participants) : participants[i].team \in teams

\* C21: after any sequence of recordJoinRequest and addUserToTeam calls,
\* every JoinRequest row references a team that exists, so verifyTeam on its
\* team and validateCrossChatParticipation on the row never throw 'The team
\* does not exist'; a deleted team leaves no JoinRequest targeting it.
C21_JoinRequestsReferenceTeams ==
  \A i \in 1..Len(join_requests) :
    /\ join_requests[i].team \in teams
    /\ verifyTeam(join_requests[i].team).ok
    /\ validateCrossChatParticipation(join_requests[i], join_requests[i].user)
         # Thrown(TeamNotFound)

\* C22: no JoinRequest row has both consent flags false, so the validator
\* never answers VALID from a row it found: VALID means the pair has no row.
C22_NoRowWithoutConsent ==
  /\ \A i \in 1..Len(join_requests) :
       join_requests[i].teamConsent \/ join_requests[i].userConsent
  /\ \A t \in teams, u \in Users :
       validateTeamJoinRequest(t, u) = Returned("VALID")
         => requestsBetween(t, u) = {}

\* the validator has reached the lookup and answered INVITED from the row
\* the team opened, while a second row, opened by the user, is on record
C22_Witness ==
  /\ validated
  /\ ret.result = Returned("INVITED")
  /\ Len(join_requests) = 2
  /\ \E i \in 1..2 : join_requests[i].teamConsent /\ ~join_requests[i].userConsent
  /\ \E i \in 1..2 : ~join_requests[i].teamConsent /\ join_requests[i].userConsent
====
